---- MODULE Spec2Model ----
(***************************************************************************)
(* Model of src/app.py: a Streamlit attendance editor over one Firestore   *)
(* collection, with a CSV -> Firestore migration.                          *)
(*                                                                         *)
(* Strings are sequences of one-character strings, so that str(), strip()  *)
(* and lower() are computed.  A Python scalar is a record                  *)
(*   [t |-> type tag, n |-> number, b |-> boolean, s |-> string]           *)
(* (unused components hold a default); NaN and None have their own tags.   *)
(* The three letters of the Arabic word for yes are written "noon", "ain", *)
(* "meem"; they have no upper case and are not white space.                *)
(***************************************************************************)
EXTENDS Integers, Sequences, FiniteSets, TLC

VARIABLES
    csv,        \* the file at CSV_FILE_PATH, as pandas.read_csv returns it
    store,      \* the Firestore collection: document id -> document fields
    cache,      \* st.cache_data entry of load_data: [valid, df]
    session,    \* st.session_state: [has_page, page_number]
    editor,     \* st.session_state["data_editor_key"]: [edited_rows, edited_cells]
    ui,         \* what the last script run left on screen
    shown,      \* the snapshot, page number and page of the last rendered grid
    last,       \* what the last migrate / save handler did (commits, messages)
    budget      \* how many more saves, migrations and foreign writes may happen

vars == <<csv, store, cache, session, editor, ui, shown, last, budget>>

(***************************************************************************)
(* Bounds of the model.                                                    *)
(***************************************************************************)
MaxSaves == 1          \* clicks on the save button
MaxMigrations == 2     \* clicks on the migration button
MaxForeign == 1        \* writes of other clients to the collection
MaxChunks == 2         \* full batches in the large CSV files
MaxRows == 3           \* rows of the small CSV files that clean_csv is tried on

(***************************************************************************)
(* Configuration, src/app.py lines 10-15 and the literals of the code.     *)
(***************************************************************************)
ROWS_PER_PAGE == 10
BATCH_LIMIT == 500
ATTENDED_COLUMN == <<"A", "t", "t", "e", "n", "d", "e", "d">>
NAME_COLUMN == <<"N", "a", "m", "e">>
ID_COLUMN == <<"I", "D">>
NOTE_COLUMN == <<"N", "o", "t", "e">>
UNNAMED_COLUMN == <<"U", "n", "n", "a", "m", "e", "d", ":", " ", "0">>
YES == <<"Y", "e", "s">>
NO == <<"N", "o">>
AffirmativeTokens ==
    { <<"y", "e", "s">>, <<"noon", "ain", "meem">>, <<"t", "r", "u", "e">>, <<"1">> }

(***************************************************************************)
(* Python scalars and the conversions the code applies to them.            *)
(***************************************************************************)
IntV(k) == [t |-> "int", n |-> k, b |-> FALSE, s |-> <<>>]
FloatV(k) == [t |-> "float", n |-> k, b |-> FALSE, s |-> <<>>]
BoolV(x) == [t |-> "bool", n |-> 0, b |-> x, s |-> <<>>]
StrV(x) == [t |-> "str", n |-> 0, b |-> FALSE, s |-> x]
NaN == [t |-> "nan", n |-> 0, b |-> FALSE, s |-> <<>>]
None == [t |-> "none", n |-> 0, b |-> FALSE, s |-> <<>>]
TupleV == [t |-> "tuple", n |-> 0, b |-> FALSE, s |-> <<>>]

Digits == <<"0", "1", "2", "3", "4", "5", "6", "7", "8", "9">>

RECURSIVE DecStr(_)
DecStr(k) ==
    IF k < 10 THEN <<Digits[k + 1]>>
    ELSE DecStr(k \div 10) \o <<Digits[(k % 10) + 1]>>

\* Python str(v)
PyStr(v) ==
    CASE v.t = "int" -> IF v.n < 0 THEN <<"-">> \o DecStr(0 - v.n) ELSE DecStr(v.n)
      [] v.t = "float" ->
            (IF v.n < 0 THEN <<"-">> \o DecStr(0 - v.n) ELSE DecStr(v.n)) \o <<".", "0">>
      [] v.t = "bool" -> IF v.b THEN <<"T", "r", "u", "e">> ELSE <<"F", "a", "l", "s", "e">>
      [] v.t = "str" -> v.s
      [] v.t = "nan" -> <<"n", "a", "n">>
      [] v.t = "none" -> <<"N", "o", "n", "e">>

IsSpace(c) == c \in {" ", "\t", "\n"}

RECURSIVE LStrip(_)
LStrip(s) == IF s # <<>> /\ IsSpace(Head(s)) THEN LStrip(Tail(s)) ELSE s

RECURSIVE RStrip(_)
RStrip(s) ==
    IF s # <<>> /\ IsSpace(s[Len(s)]) THEN RStrip(SubSeq(s, 1, Len(s) - 1)) ELSE s

\* Python s.strip()
PyStrip(s) == RStrip(LStrip(s))

Upper == <<"A", "D", "E", "F", "I", "N", "O", "R", "S", "T", "U", "Y">>
Lower == <<"a", "d", "e", "f", "i", "n", "o", "r", "s", "t", "u", "y">>

LowerChar(c) ==
    IF \E i \in 1..Len(Upper) : Upper[i] = c
    THEN Lower[CHOOSE i \in 1..Len(Upper) : Upper[i] = c]
    ELSE c

\* Python s.lower()
PyLower(s) == [i \in 1..Len(s) |-> LowerChar(s[i])]

\* pandas.notna(v)
NotNa(v) == v.t \notin {"nan", "none"}

\* the comparison of lines 77-78 without lower()
CanonMigrate_NoLower(v) ==
    IF PyStrip(PyStr(v)) \in AffirmativeTokens THEN StrV(YES) ELSE StrV(NO)

\* lines 77-78: str(v).strip().lower() in the token list
CanonMigrate(v) ==
    IF PyLower(PyStrip(PyStr(v))) \in AffirmativeTokens THEN StrV(YES) ELSE StrV(NO)

\* lines 193-198: booleans directly, anything else through its string form
CanonSave(v) ==
    IF v.t = "bool"
    THEN (IF v.b THEN StrV(YES) ELSE StrV(NO))
    ELSE (IF PyLower(PyStrip(PyStr(v))) \in AffirmativeTokens THEN StrV(YES) ELSE StrV(NO))

(***************************************************************************)
(* pandas: a DataFrame read from the CSV file is [ok, columns, rows]; a    *)
(* row holds one scalar per column.                                        *)
(***************************************************************************)
Range(f) == { f[x] : x \in DOMAIN f }

EmptyRec == [x \in {} |-> NaN]

\* lines 38-42 with dropna(how="any")
clean_csv_DropAny(df) ==
    [ ok |-> df.ok,
      columns |-> [i \in 1..Len(df.columns) |-> PyStrip(df.columns[i])],
      rows |-> SelectSeq(df.rows, LAMBDA r : \A i \in 1..Len(r) : NotNa(r[i])) ]

\* lines 38-42 without the strip of the column names
clean_csv_NoStrip(df) ==
    [ ok |-> df.ok,
      columns |-> df.columns,
      rows |-> SelectSeq(df.rows, LAMBDA r : \E i \in 1..Len(r) : NotNa(r[i])) ]

\* lines 38-42: dropna(how="all"), then strip the column names
clean_csv(df) ==
    [ ok |-> df.ok,
      columns |-> [i \in 1..Len(df.columns) |-> PyStrip(df.columns[i])],
      rows |-> SelectSeq(df.rows, LAMBDA r : \E i \in 1..Len(r) : NotNa(r[i])) ]

\* lines 55-56: df.drop(columns=["Unnamed: 0"])
DropUnnamed(df) ==
    IF \E i \in 1..Len(df.columns) : df.columns[i] = UNNAMED_COLUMN
    THEN LET keep == { i \in 1..Len(df.columns) : df.columns[i] # UNNAMED_COLUMN }
             pick(sq) == SelectSeq([i \in 1..Len(sq) |-> <<i, sq[i]>>],
                                   LAMBDA p : p[1] \in keep)
             proj(sq) == [i \in 1..Len(pick(sq)) |-> pick(sq)[i][2]]
         IN [ ok |-> df.ok,
              columns |-> proj(df.columns),
              rows |-> [j \in 1..Len(df.rows) |-> proj(df.rows[j])] ]
    ELSE df

\* line 58: df.to_dict("records"); of two columns of one name the last wins
ToRecord(columns, row) ==
    [ c \in Range(columns) |->
        row[CHOOSE i \in 1..Len(columns) :
                /\ columns[i] = c
                /\ \A j \in 1..Len(columns) : columns[j] = c => j <= i] ]

to_dict_records(df) == [j \in 1..Len(df.rows) |-> ToRecord(df.columns, df.rows[j])]

\* line 74: {str(k).strip(): v for k, v in record.items() if pd.notna(v)}
StripNa(record) ==
    LET keys == { k \in DOMAIN record : NotNa(record[k]) }
        names == { PyStrip(k) : k \in keys }
    IN [ f \in names |-> record[CHOOSE k \in keys : PyStrip(k) = f] ]

\* lines 74-78: the record written for one CSV row
CleanedRecord(record) ==
    LET r == StripNa(record)
    IN IF ATTENDED_COLUMN \in DOMAIN r
       THEN [ f \in DOMAIN r |-> IF f = ATTENDED_COLUMN THEN CanonMigrate(r[f]) ELSE r[f] ]
       ELSE r

(***************************************************************************)
(* Firestore: the collection is a function from document id to fields.     *)
(* A write operation is [id, data, merge]; a commit applies the operations *)
(* of one batch in order, all or none.                                     *)
(***************************************************************************)
Merged(old, data) ==
    [ f \in (DOMAIN old) \union (DOMAIN data) |->
        IF f \in DOMAIN data THEN data[f] ELSE old[f] ]

\* set(doc_ref, data) replaces the document, set(doc_ref, data, merge=True)
\* keeps the fields that data does not name
ApplyOp(st, op) ==
    LET old == IF op.id \in DOMAIN st THEN st[op.id] ELSE EmptyRec
        new == IF op.merge THEN Merged(old, op.data) ELSE op.data
    IN (op.id :> new) @@ st

\* the operations ops[lo..hi] applied in order
RECURSIVE ApplyOps(_, _, _, _)
ApplyOps(st, ops, lo, hi) ==
    IF lo > hi THEN st
    ELSE IF lo = hi THEN ApplyOp(st, ops[lo])
    ELSE LET mid == (lo + hi) \div 2
             first == ApplyOps(st, ops, lo, mid)
         IN IF first = st THEN ApplyOps(st, ops, mid + 1, hi)
            ELSE ApplyOps(first, ops, mid + 1, hi)

\* batch.commit() of the operations queued in batch, when the store accepts it
CommitBatch(st, batch) == ApplyOps(st, batch, 1, Len(batch))

\* order of document names (byte order of the characters used in ids)
Alphabet == <<"-", ".", "0", "1", "2", "3", "4", "5", "6", "7", "8", "9", "x">>
Ord(c) == CHOOSE i \in 1..Len(Alphabet) : Alphabet[i] = c

RECURSIVE StrLess(_, _)
StrLess(a, b) ==
    IF b = <<>> THEN FALSE
    ELSE IF a = <<>> THEN TRUE
    ELSE IF Head(a) = Head(b) THEN StrLess(Tail(a), Tail(b))
    ELSE Ord(Head(a)) < Ord(Head(b))

RECURSIVE ByName(_)
ByName(S) ==
    IF S = {} THEN <<>>
    ELSE LET m == CHOOSE d \in S : \A e \in S : e = d \/ StrLess(d, e)
         IN <<m>> \o ByName(S \ {m})

\* documents whose ID value lies in lo..hi, ascending by ID, ties by name
RECURSIVE OrderBy(_, _, _, _)
OrderBy(st, S, lo, hi) ==
    IF S = {} THEN <<>>
    ELSE IF lo >= hi THEN ByName(S)
    ELSE LET mid == (lo + hi) \div 2
             low == { d \in S : st[d][ID_COLUMN].n <= mid }
         IN OrderBy(st, low, lo, mid) \o OrderBy(st, S \ low, mid + 1, hi)

\* line 113: collection.order_by("ID", ASCENDING).stream(): the documents
\* that have a numeric ID field, in ascending order of it
OrderedIds(st) ==
    LET S == { d \in DOMAIN st :
                 /\ ID_COLUMN \in DOMAIN st[d]
                 /\ st[d][ID_COLUMN].t \in {"int", "float"} }
        keys == { st[d][ID_COLUMN].n : d \in S }
    IN IF S = {} THEN <<>>
       ELSE LET hi == CHOOSE k \in keys : \A j \in keys : j <= k
                lo == CHOOSE k \in keys : \A j \in keys : k <= j
            IN OrderBy(st, S, lo, hi)

\* lines 111-128: the body of load_data, a DataFrame indexed by _doc_id
FetchFrame(st) ==
    LET ids == OrderedIds(st)
    IN [ i \in 1..Len(ids) |-> [id |-> ids[i], rec |-> st[ids[i]]] ]

EmptyStore == [d \in {} |-> EmptyRec]

(***************************************************************************)
(* migrate_csv_to_firestore, lines 45-105.  rejects is the set of the      *)
(* ordinals of the commit calls of this run that the store rejects.        *)
(***************************************************************************)
\* line 80 with an id generated by the store: collection_ref.document()
document_id_Auto(cleaned, m) ==
    <<"x">> \o DecStr(Cardinality(DOMAIN m.store) + Len(m.batch))

\* line 80: collection_ref.document(document_id=str(cleaned_record["ID"]))
document_id(cleaned, m) == PyStr(cleaned[ID_COLUMN])

\* lines 88-90 and 97: batch.commit(); a rejected commit raises
MigrateCommit(m, rejects) ==
    IF (Len(m.commits) + 1) \in rejects
    THEN [m EXCEPT !.commits = Append(@, [ops |-> m.batch, ok |-> FALSE]),
                   !.status = "commit_error"]
    ELSE [m EXCEPT !.commits = Append(@, [ops |-> m.batch, ok |-> TRUE]),
                   !.store = CommitBatch(m.store, m.batch),
                   !.batch = <<>>,
                   !.batch_counter = 0]

\* lines 86-93: if batch_counter >= 500, commit and start a new batch
MigrateFlush(m, rejects) ==
    IF m.batch_counter >= BATCH_LIMIT THEN MigrateCommit(m, rejects) ELSE m

\* lines 81-85: batch.set(doc_ref, cleaned_record) and the two counters
MigrateSet(m, op, rejects) ==
    MigrateFlush([m EXCEPT !.batch = Append(@, op),
                           !.queued = Append(@, op),
                           !.batch_counter = @ + 1,
                           !.record_counter = @ + 1], rejects)

\* lines 80-85: the write of one cleaned record
MigrateRecord(m, cleaned, rejects) ==
    IF ID_COLUMN \notin DOMAIN cleaned
    THEN [m EXCEPT !.status = "key_error"]
    ELSE MigrateSet(m, [id |-> document_id(cleaned, m), data |-> cleaned,
                        merge |-> FALSE], rejects)

\* lines 72-93: one iteration of the loop over the records
MigrateStep(m, record, rejects) ==
    IF m.status # "run" THEN m
    ELSE MigrateRecord(m, CleanedRecord(record), rejects)

\* lines 72-93: the loop over data[lo..hi]
RECURSIVE MigrateLoop(_, _, _, _, _)
MigrateLoop(m, data, lo, hi, rejects) ==
    IF lo > hi THEN m
    ELSE IF lo = hi THEN MigrateStep(m, data[lo], rejects)
    ELSE LET mid == (lo + hi) \div 2
             first == MigrateLoop(m, data, lo, mid, rejects)
         IN IF first.status # "run" THEN first
            ELSE MigrateLoop(first, data, mid + 1, hi, rejects)

\* lines 95-97: commit remaining
MigrateRemaining(m, rejects) ==
    IF m.status = "run" /\ m.batch_counter > 0 THEN MigrateCommit(m, rejects) ELSE m

\* lines 99-101: the run is complete when nothing raised
MigrateEnd(m) == IF m.status = "run" THEN [m EXCEPT !.status = "complete"] ELSE m

\* lines 58-101: from the list of records to the last commit
MigrateRecords(file, data, st, rejects) ==
    LET m0 == [ batch |-> <<>>, queued |-> <<>>, batch_counter |-> 0,
                record_counter |-> 0, commits |-> <<>>, store |-> st,
                status |-> "run", total_records |-> Len(data) ]
    IN IF ~file.ok THEN [m0 EXCEPT !.status = "read_error", !.total_records = 0]
       ELSE IF Len(data) = 0 THEN [m0 EXCEPT !.status = "no_records"]
       ELSE MigrateEnd(MigrateRemaining(
                MigrateLoop(m0, data, 1, Len(data), rejects), rejects))

\* lines 47-101: from the cleaning to the last commit
MigrateRun(file, st, rejects) ==
    MigrateRecords(file, to_dict_records(DropUnnamed(clean_csv(file))), st, rejects)

(***************************************************************************)
(* The session.  A world w is the record of everything a handler can read  *)
(* or change: [store, cache, session, editor, ui, shown, last].            *)
(***************************************************************************)
NoShown == [df |-> <<>>, page_number |-> 0, page |-> <<>>]
NoEdits == [edited_rows |-> <<>>, edited_cells |-> <<>>]
ClearedCache == [valid |-> FALSE, df |-> <<>>]

NoLast ==
    [ op |-> "none", status |-> "none", total |-> 0, queued |-> <<>>,
      commits |-> <<>>, success_count |-> -1, failed |-> 0, warnings |-> <<>>,
      snapshot |-> <<>>, page_number |-> 0, page |-> <<>>, delta |-> <<>>,
      rendered |-> NoShown, pre_store |-> EmptyStore, post_store |-> EmptyStore,
      cleared |-> FALSE ]

Max(a, b) == IF a >= b THEN a ELSE b
Min(a, b) == IF a <= b THEN a ELSE b

\* math.ceil(a / b) for a >= 0, b >= 1
Ceil(a, b) == (a + b - 1) \div b

\* lines 162 and 243 with floor in place of ceil
TotalPages_Floor(total_rows, rows_per_page) == Max(1, total_rows \div rows_per_page)

\* lines 162 and 243: max(1, math.ceil(total_rows / ROWS_PER_PAGE))
TotalPages(total_rows, rows_per_page) == Max(1, Ceil(total_rows, rows_per_page))

\* lines 165 and 260 with a page number counted from 0
StartIdx_ZeroBased(page_number, rows_per_page) == page_number * rows_per_page

\* lines 165 and 260
StartIdx(page_number, rows_per_page) == (page_number - 1) * rows_per_page

\* lines 166 and 261
EndIdx(page_number, rows_per_page, total_rows) ==
    Min(StartIdx(page_number, rows_per_page) + rows_per_page, total_rows)

\* df.iloc[start:end] for 0 <= start and end <= len(df)
ILoc(df, start, end) == IF start < end THEN SubSeq(df, start + 1, end) ELSE <<>>

\* lines 165-167 and 260-262
PageOf(df, page_number, rows_per_page) ==
    ILoc(df, StartIdx(page_number, rows_per_page),
         EndIdx(page_number, rows_per_page, Len(df)))

\* lines 108-128: load_data behind st.cache_data
load_data(w) == IF w.cache.valid THEN w.cache.df ELSE FetchFrame(w.store)

\* lines 229-239: the migration screen; the grid is not drawn, so the
\* state of its widget is dropped
MigrationScreen(w) ==
    [w EXCEPT !.ui = "migration", !.shown = NoShown, !.editor = NoEdits]

\* lines 242-313: the page number, the navigation buttons and the grid.
\* The data editor keeps its pending edits while it is drawn over the same
\* data; over changed data it keeps them or starts empty (keep).
RenderPage(w, df, click, keep) ==
    LET total_rows == Len(df)
        total_pages == TotalPages(total_rows, ROWS_PER_PAGE)
        p0 == IF w.session.has_page THEN w.session.page_number ELSE 1
        p1 == IF click = "prev" THEN Max(1, p0 - 1)
              ELSE IF click = "next" THEN Min(total_pages, p0 + 1)
              ELSE p0
        page_df == PageOf(df, p1, ROWS_PER_PAGE)
    IN [w EXCEPT !.ui = "editor",
                 !.session = [has_page |-> TRUE, page_number |-> p1],
                 !.shown = [df |-> df, page_number |-> p1, page |-> page_df],
                 !.editor = IF w.ui = "editor" /\ (page_df = w.shown.page \/ keep)
                            THEN w.editor ELSE NoEdits]

\* lines 225-323: one run of the script without the migration button
ScriptRun(w, click, keep) ==
    LET df == load_data(w)
        w1 == [w EXCEPT !.cache = [valid |-> TRUE, df |-> df]]
    IN IF Len(df) = 0 THEN MigrationScreen(w1) ELSE RenderPage(w1, df, click, keep)

\* line 105: st.rerun() after a complete migration
MigrateRerun(w, keep) ==
    IF w.last.status = "complete" THEN ScriptRun(w, "none", keep) ELSE w

\* lines 99-103: the outcome m of the run written to the world
MigrateOutcome(w, m) ==
    [w EXCEPT
       !.store = m.store,
       !.cache = IF m.status = "complete" THEN ClearedCache ELSE @,
       !.last = [NoLast EXCEPT
                   !.op = "migrate", !.status = m.status,
                   !.total = m.total_records, !.queued = m.queued,
                   !.commits = m.commits,
                   !.success_count = IF m.status = "complete"
                                     THEN m.record_counter ELSE -1,
                   !.pre_store = w.store, !.post_store = m.store,
                   !.cleared = (m.status = "complete")]]

\* lines 45-105 as called from line 235
migrate_csv_to_firestore(w, file, rejects, keep) ==
    MigrateRerun(MigrateOutcome(w, MigrateRun(file, w.store, rejects)), keep)

\* lines 225-239: a run of the script in which the migration button fired
MigrateClick(w, file, rejects, keep) ==
    LET df == load_data(w)
        w1 == [w EXCEPT !.cache = [valid |-> TRUE, df |-> df]]
    IN IF Len(df) = 0
       THEN migrate_csv_to_firestore(MigrationScreen(w1), file, rejects, keep)
       ELSE RenderPage(w1, df, "none", keep)

(***************************************************************************)
(* update_firestore_record, lines 131-220.                                 *)
(***************************************************************************)
DigitVal(c) == (CHOOSE i \in 1..10 : Digits[i] = c) - 1

RECURSIVE DigitsVal(_)
DigitsVal(ds) ==
    IF ds = <<>> THEN 0
    ELSE 10 * DigitsVal(SubSeq(ds, 1, Len(ds) - 1)) + DigitVal(ds[Len(ds)])

\* Python int(x): [ok, n]; ok is FALSE where int raises
PyInt(x) ==
    CASE x.t = "int" -> [ok |-> TRUE, n |-> x.n]
      [] x.t = "float" -> [ok |-> TRUE, n |-> x.n]
      [] x.t = "bool" -> [ok |-> TRUE, n |-> IF x.b THEN 1 ELSE 0]
      [] x.t = "str" ->
            LET t == PyStrip(x.s)
                signed == t # <<>> /\ Head(t) \in {"-", "+"}
                ds == IF signed THEN Tail(t) ELSE t
                good == ds # <<>> /\ \A i \in 1..Len(ds) : ds[i] \in Range(Digits)
            IN IF ~good THEN [ok |-> FALSE, n |-> 0]
               ELSE [ok |-> TRUE,
                     n |-> IF signed /\ Head(t) = "-" THEN 0 - DigitsVal(ds)
                           ELSE DigitsVal(ds)]
      [] OTHER -> [ok |-> FALSE, n |-> 0]

\* lines 140-147: edited_rows rebuilt from edited_cells, keyed by str(row)
RECURSIVE CellsToRows(_, _)
CellsToRows(cells, tmp) ==
    IF cells = <<>> THEN tmp
    ELSE LET cell == Head(cells)
             row == StrV(PyStr(cell.row))
             one == (cell.column :> cell.value)
         IN IF \E i \in 1..Len(tmp) : tmp[i].key = row
            THEN LET i == CHOOSE j \in 1..Len(tmp) : tmp[j].key = row
                 IN CellsToRows(Tail(cells),
                                [tmp EXCEPT ![i].changes = Merged(@, one)])
            ELSE CellsToRows(Tail(cells), Append(tmp, [key |-> row, changes |-> one]))

\* lines 133-147
EditedRows(editor_state) ==
    IF editor_state.edited_rows = <<>> /\ editor_state.edited_cells # <<>>
    THEN CellsToRows(editor_state.edited_cells, <<>>)
    ELSE editor_state.edited_rows

\* lines 190-198
ChangesToWrite(changes) ==
    [ f \in DOMAIN changes |->
        IF f = ATTENDED_COLUMN THEN CanonSave(changes[f]) ELSE changes[f] ]

\* line 183 with the bound one row short
OutOfPage_OneShort(row_pos_int, page_df) ==
    row_pos_int < 0 \/ row_pos_int >= Len(page_df) - 1

\* line 183: the row position is outside the page
OutOfPage(row_pos_int, page_df) == row_pos_int < 0 \/ row_pos_int >= Len(page_df)

\* lines 174-206 with the document of the first row of the page at line 187
SaveStep_FirstRow(acc, entry, page_df) ==
    LET parsed == PyInt(entry.key)
    IN IF ~parsed.ok
       THEN [acc EXCEPT !.warnings = Append(@, [kind |-> "unknown_key", key |-> entry.key])]
       ELSE IF OutOfPage(parsed.n, page_df)
       THEN [acc EXCEPT !.warnings = Append(@, [kind |-> "outside_page", key |-> entry.key])]
       ELSE LET real_doc_id == page_df[1].id
                op == [id |-> real_doc_id, data |-> ChangesToWrite(entry.changes),
                       merge |-> TRUE]
            IN [acc EXCEPT !.batch = Append(@, op), !.update_count = @ + 1]

\* lines 174-206: one iteration of the loop over edited_rows
SaveStep(acc, entry, page_df) ==
    LET parsed == PyInt(entry.key)
    IN IF ~parsed.ok
       THEN [acc EXCEPT !.warnings = Append(@, [kind |-> "unknown_key", key |-> entry.key])]
       ELSE IF OutOfPage(parsed.n, page_df)
       THEN [acc EXCEPT !.warnings = Append(@, [kind |-> "outside_page", key |-> entry.key])]
       ELSE LET real_doc_id == page_df[parsed.n + 1].id
                op == [id |-> real_doc_id, data |-> ChangesToWrite(entry.changes),
                       merge |-> TRUE]
            IN [acc EXCEPT !.batch = Append(@, op), !.update_count = @ + 1]

RECURSIVE SaveLoop(_, _, _)
SaveLoop(acc, entries, page_df) ==
    IF entries = <<>> THEN acc
    ELSE SaveLoop(SaveStep(acc, Head(entries), page_df), Tail(entries), page_df)

\* lines 160-163: the page number save recomputes the page with
SavePageNumber(w, total_rows) ==
    LET page_number == IF w.session.has_page THEN w.session.page_number ELSE 1
        total_pages == TotalPages(total_rows, ROWS_PER_PAGE)
    IN Max(1, Min(page_number, total_pages))

\* line 209 with the commit issued whatever was queued
ShouldCommit_Always(acc) == TRUE

\* line 209: if update_count > 0
ShouldCommit(acc) == acc.update_count > 0

\* lines 131-220; rejects holds 1 when the store rejects the commit
update_firestore_record(w, rejects) ==
    LET edited_rows == EditedRows(w.editor)
        full_df == load_data(w)
        w1 == [w EXCEPT !.cache = [valid |-> TRUE, df |-> full_df]]
        page_number == SavePageNumber(w, Len(full_df))
        page_df == PageOf(full_df, page_number, ROWS_PER_PAGE)
        acc == SaveLoop([batch |-> <<>>, update_count |-> 0, failed |-> 0,
                         warnings |-> <<>>], edited_rows, page_df)
        rejected == 1 \in rejects
        committed == ShouldCommit(acc) /\ ~rejected
        after == IF committed THEN CommitBatch(w.store, acc.batch) ELSE w.store
        base == [NoLast EXCEPT !.op = "save", !.delta = edited_rows,
                               !.rendered = w.shown, !.pre_store = w.store,
                               !.post_store = w.store]
    IN IF edited_rows = <<>>
       THEN [w EXCEPT !.last = [base EXCEPT !.status = "no_changes"]]
       ELSE IF Len(full_df) = 0
       THEN [w1 EXCEPT !.last = [base EXCEPT !.status = "no_data"]]
       ELSE [w1 EXCEPT
               !.store = after,
               !.cache = ClearedCache,
               !.last = [base EXCEPT
                           !.status = IF ~ShouldCommit(acc) THEN "nothing_queued"
                                      ELSE IF rejected THEN "commit_error"
                                      ELSE "committed",
                           !.total = Len(edited_rows),
                           !.queued = acc.batch,
                           !.commits = IF ShouldCommit(acc)
                                       THEN <<[ops |-> acc.batch, ok |-> ~rejected]>>
                                       ELSE <<>>,
                           !.success_count = IF committed THEN acc.update_count ELSE -1,
                           !.post_store = after,
                           !.failed = acc.failed,
                           !.warnings = acc.warnings,
                           !.snapshot = full_df,
                           !.page_number = page_number,
                           !.page = page_df,
                           !.cleared = TRUE]]

(***************************************************************************)
(* The CSV files, as pandas.read_csv returns them: a column that holds an  *)
(* empty cell is a float column, a column of words is a string column.     *)
(***************************************************************************)
ARABIC_YES == <<"noon", "ain", "meem">>

TextRaws ==
    << StrV(YES), StrV(<<" ", "y", "e", "s", " ">>), StrV(NO), StrV(<<"1">>),
       StrV(<<"0">>), StrV(<<"T", "R", "U", "E">>), StrV(ARABIC_YES), NaN,
       StrV(<<"o", "u", "i">>) >>

Roster(k) ==
    [ ok |-> TRUE,
      columns |-> <<ID_COLUMN, <<" ">> \o NAME_COLUMN \o <<" ">>, ATTENDED_COLUMN>>,
      rows |-> [ i \in 1..k |->
                   << IntV(i), StrV(<<"p">> \o DecStr(i)),
                      TextRaws[((i - 1) % Len(TextRaws)) + 1] >> ] ]

WithEmptyRow ==
    [ ok |-> TRUE,
      columns |-> <<<<" ">> \o ID_COLUMN, NAME_COLUMN, ATTENDED_COLUMN>>,
      rows |-> << <<FloatV(1), StrV(<<"a">>), FloatV(1)>>,
                  <<NaN, NaN, NaN>>,
                  <<FloatV(2), NaN, FloatV(0)>>,
                  <<FloatV(3), StrV(<<"c">>), NaN>>,
                  <<FloatV(4), StrV(<<"d">>), FloatV(1)>> >> ]

WithoutId ==
    [ ok |-> TRUE,
      columns |-> <<UNNAMED_COLUMN, ID_COLUMN, NAME_COLUMN, ATTENDED_COLUMN>>,
      rows |-> << <<IntV(0), FloatV(1), StrV(<<"a">>), BoolV(TRUE)>>,
                  <<IntV(1), NaN, StrV(<<"b">>), BoolV(FALSE)>>,
                  <<IntV(2), FloatV(3), StrV(<<"c">>), BoolV(TRUE)>> >> ]

HeaderOnly ==
    [ ok |-> TRUE, columns |-> <<ID_COLUMN, NAME_COLUMN, ATTENDED_COLUMN>>, rows |-> <<>> ]

Unreadable == [ ok |-> FALSE, columns |-> <<>>, rows |-> <<>> ]

SmallFiles == { Roster(25), Roster(21), WithEmptyRow, WithoutId, HeaderOnly, Unreadable }

BulkFiles == { Roster(c * BATCH_LIMIT + d) : c \in 1..MaxChunks, d \in {0, 1} }

\* The files of at most MaxRows rows with an ID and a Name column: a row has
\* both cells, one of them or none.  read_csv gives the ID column the type
\* int when no cell of it is empty and float otherwise.
ColumnNamings ==
    { <<ID_COLUMN, NAME_COLUMN>>,
      << <<" ">> \o ID_COLUMN, NAME_COLUMN \o <<" ">> >>,
      << <<"\t">> \o ID_COLUMN \o <<" ", " ">>, <<" ">> \o NAME_COLUMN \o <<"\n">> >> }

RowKinds == { [id |-> a, name |-> b] : a \in BOOLEAN, b \in BOOLEAN }

Patterns == UNION { [1..k -> RowKinds] : k \in 0..MaxRows }

Frame(columns, pattern) ==
    LET whole == \A i \in 1..Len(pattern) : pattern[i].id
    IN [ ok |-> TRUE,
         columns |-> columns,
         rows |-> [ i \in 1..Len(pattern) |->
                      << IF ~pattern[i].id THEN NaN
                         ELSE IF whole THEN IntV(i) ELSE FloatV(i),
                         IF pattern[i].name THEN StrV(<<"a">>) ELSE NaN >> ] ]

CleanFiles == { Frame(c, p) : c \in ColumnNamings, p \in Patterns }

(***************************************************************************)
(* What the user can enter in the grid: edits of the rows EditRows of the  *)
(* page on screen.  The editor reports them as edited_rows with integer    *)
(* keys, with keys in text form, or as edited_cells; line 178 also expects *)
(* keys that int() cannot read, such as tuples.                            *)
(***************************************************************************)
EditRows == {0, 4}

Tick(r) == [row |-> r, changes |-> (ATTENDED_COLUMN :> BoolV(TRUE))]
Rename(r) == [row |-> r, changes |-> (NAME_COLUMN :> StrV(<<"Z">>))]

Gestures(rows) ==
    { g \in { <<Tick(0)>>, <<Rename(4)>>, <<Rename(0), Tick(4)>> } :
        \A i \in 1..Len(g) : g[i].row \in rows }

AsRows(g, text) ==
    [ edited_rows |->
        [ i \in 1..Len(g) |->
            [ key |-> IF text THEN StrV(DecStr(g[i].row)) ELSE IntV(g[i].row),
              changes |-> g[i].changes ] ],
      edited_cells |-> <<>> ]

AsCells(g) ==
    [ edited_rows |-> <<>>,
      edited_cells |->
        [ i \in 1..Len(g) |->
            LET column == CHOOSE f \in DOMAIN g[i].changes : TRUE
            IN [ row |-> IntV(g[i].row), column |-> column,
                 value |-> g[i].changes[column] ] ] ]

AsOther(g) ==
    [ edited_rows |-> [ i \in 1..Len(g) |-> [key |-> TupleV, changes |-> g[i].changes] ],
      edited_cells |-> <<>> ]

EditorStates(page_df) ==
    LET gs == Gestures({ r \in EditRows : r < Len(page_df) })
    IN { AsRows(g, FALSE) : g \in gs }
         \union { AsRows(g, TRUE) : g \in gs \intersect { <<Tick(0)>> } }
         \union { AsOther(g) : g \in gs \intersect { <<Tick(0)>> } }
         \union { AsCells(g) : g \in gs \intersect { <<Rename(0), Tick(4)>> } }

(***************************************************************************)
(* Writes of other clients of the collection.                              *)
(***************************************************************************)
ForeignOps ==
    { [kind |-> "set", id |-> <<"1">>,
       data |-> (ID_COLUMN :> IntV(1)) @@ (NOTE_COLUMN :> StrV(<<"x">>))],
      [kind |-> "delete", id |-> <<"1">>, data |-> EmptyRec] }

ApplyForeign(st, f) ==
    IF f.kind = "set"
    THEN ApplyOp(st, [id |-> f.id, data |-> f.data, merge |-> TRUE])
    ELSE [ d \in (DOMAIN st) \ {f.id} |-> st[d] ]

(***************************************************************************)
(* The state machine.                                                      *)
(***************************************************************************)
World ==
    [ store |-> store, cache |-> cache, session |-> session, editor |-> editor,
      ui |-> ui, shown |-> shown, last |-> last ]

Becomes(w) ==
    /\ store' = w.store
    /\ cache' = w.cache
    /\ session' = w.session
    /\ editor' = w.editor
    /\ ui' = w.ui
    /\ shown' = w.shown
    /\ last' = w.last

Start(files) ==
    /\ csv \in files
    /\ store = EmptyStore
    /\ cache = ClearedCache
    /\ session = [has_page |-> FALSE, page_number |-> 0]
    /\ editor = NoEdits
    /\ ui = "none"
    /\ shown = NoShown
    /\ last = NoLast
    /\ budget = [saves |-> MaxSaves, migrations |-> MaxMigrations,
                 foreign |-> MaxForeign]

Init == Start(SmallFiles)

InitBulk == Start(BulkFiles)

\* the messages of a handler stay on screen until the script runs again
Fresh == [World EXCEPT !.last = NoLast]

\* the script runs with no button pressed (page load, refresh)
Run ==
    /\ \E keep \in BOOLEAN : Becomes(ScriptRun(Fresh, "none", keep))
    /\ UNCHANGED <<csv, budget>>

\* line 250: the "<-" button
ClickPrev ==
    /\ ui = "editor"
    /\ \E keep \in BOOLEAN : Becomes(ScriptRun(Fresh, "prev", keep))
    /\ UNCHANGED <<csv, budget>>

\* line 252: the "->" button
ClickNext ==
    /\ ui = "editor"
    /\ \E keep \in BOOLEAN : Becomes(ScriptRun(Fresh, "next", keep))
    /\ UNCHANGED <<csv, budget>>

\* line 234: the migration button
ClickMigrate ==
    /\ ui = "migration"
    /\ budget.migrations > 0
    /\ \E rejects \in {{}, {1}, {2}, {3}} :
          Becomes(MigrateClick(Fresh, csv, rejects, FALSE))
    /\ budget' = [budget EXCEPT !.migrations = @ - 1]
    /\ UNCHANGED csv

\* lines 302-310: the user edits cells of the grid; the script reruns.
\* Edits are read by the save handler only, so they are modelled while a
\* save can still follow.
Edit ==
    /\ ui = "editor"
    /\ budget.saves > 0
    /\ \E e \in EditorStates(shown.page), keep \in BOOLEAN :
          Becomes(ScriptRun([Fresh EXCEPT !.editor = e], "none", keep))
    /\ UNCHANGED <<csv, budget>>

\* line 313: the save button; the callback runs, then the script
ClickSave ==
    /\ ui = "editor"
    /\ budget.saves > 0
    /\ \E rejects \in {{}, {1}}, keep \in BOOLEAN :
          Becomes(ScriptRun(update_firestore_record(Fresh, rejects), "none", keep))
    /\ budget' = [budget EXCEPT !.saves = @ - 1]
    /\ UNCHANGED csv

\* line 108: ttl=60, the cached snapshot expires
Expire ==
    /\ cache.valid
    /\ cache' = ClearedCache
    /\ UNCHANGED <<csv, store, session, editor, ui, shown, last, budget>>

\* another client writes to the collection
ForeignWrite ==
    /\ budget.foreign > 0
    /\ \E f \in ForeignOps :
          /\ f.kind = "delete" => f.id \in DOMAIN store
          /\ store' = ApplyForeign(store, f)
    /\ budget' = [budget EXCEPT !.foreign = @ - 1]
    /\ UNCHANGED <<csv, cache, session, editor, ui, shown, last>>

Next ==
    \/ Run
    \/ ClickPrev
    \/ ClickNext
    \/ ClickMigrate
    \/ Edit
    \/ ClickSave
    \/ Expire
    \/ ForeignWrite

Spec == Init /\ [][Next]_vars

NextBulk ==
    \/ Run
    \/ ClickMigrate
    \/ Expire
    \/ ForeignWrite

SpecBulk == InitBulk /\ [][NextBulk]_vars

\* the migration of the small files that clean_csv is tried on
InitClean == Start(CleanFiles)

NextClean ==
    \/ Run
    \/ ClickMigrate
    \/ Expire

SpecClean == InitClean /\ [][NextClean]_vars

(***************************************************************************)
(* Properties.                                                             *)
(***************************************************************************)
SaveRan == last.op = "save" /\ last.status \in {"committed", "commit_error", "nothing_queued"}

MigrationRan == last.op = "migrate" /\ last.status \notin {"read_error", "no_records"}

\* the row position a key of the edit surface stands for
RowOf(key) ==
    IF key.t = "int" THEN key.n
    ELSE IF key.t = "str" THEN CHOOSE r \in 0..ROWS_PER_PAGE : DecStr(r) = key.s
    ELSE -1

RECURSIVE Concat(_)
Concat(chunks) ==
    IF chunks = <<>> THEN <<>> ELSE Head(chunks).ops \o Concat(Tail(chunks))

\* C1: a save whose delta holds only row indices of the page shown for the
\* session's page number p queues one write per delta entry, and the write
\* for row r targets the document at position (p-1)*ROWS_PER_PAGE + r of
\* the snapshot that the save uses.
C1_OneWritePerEdit ==
    SaveRan =>
        LET p == last.rendered.page_number
            N == Len(last.snapshot)
            first == (p - 1) * ROWS_PER_PAGE
            size == IF first < N THEN Min(ROWS_PER_PAGE, N - first) ELSE 0
            rows == [i \in 1..Len(last.delta) |-> RowOf(last.delta[i].key)]
        IN (\A i \in 1..Len(rows) : 0 <= rows[i] /\ rows[i] < size) =>
              /\ Len(last.queued) = Len(last.delta)
              /\ \A i \in 1..Len(rows) :
                    /\ last.queued[i].id = last.snapshot[first + rows[i] + 1].id
                    /\ DOMAIN last.queued[i].data = DOMAIN last.delta[i].changes

C1_Witness ==
    /\ SaveRan
    /\ last.rendered.page_number = 2
    /\ Len(last.snapshot) = 25
    /\ Len(last.delta) = 2
    /\ RowOf(last.delta[2].key) = 4
    /\ Len(last.queued) = 2
    /\ last.queued[2].id = <<"1", "5">>

\* C2: the snapshot a save resolves row positions with is the snapshot the
\* page on screen was rendered from, and every write goes to the document
\* shown at the edited row.
C2_SaveUsesRenderedSnapshot ==
    SaveRan =>
        /\ last.snapshot = last.rendered.df
        /\ \A i \in 1..Len(last.queued) :
              \E j \in 1..Len(last.delta) :
                 /\ RowOf(last.delta[j].key) < Len(last.rendered.page)
                 /\ last.queued[i].id = last.rendered.page[RowOf(last.delta[j].key) + 1].id

\* C3: a migration of k records issues ceil(k / 500) commits of at most 500
\* operations each, and the commits in order hold exactly the k operations.
C3_Chunking ==
    MigrationRan =>
        /\ Len(last.commits) = Ceil(last.total, BATCH_LIMIT)
        /\ \A i \in 1..Len(last.commits) : Len(last.commits[i].ops) <= BATCH_LIMIT
        /\ Len(last.queued) = last.total
        /\ Concat(last.commits) = last.queued

\* C4: a rejected commit of a migration is followed by the commits of all
\* later chunks, and its operations are recorded as failed.
C4_LaterChunksAttempted ==
    MigrationRan =>
        \A i \in 1..Len(last.commits) :
            ~last.commits[i].ok =>
                /\ Len(last.commits) = Ceil(last.total, BATCH_LIMIT)
                /\ last.failed >= Len(last.commits[i].ops)

\* C5: after a migration or a save that queued k writes, the reported
\* number of succeeded writes plus the number recorded as failed is k, and
\* the writes of a rejected commit are none of the succeeded ones.
C5_Accounting ==
    ((SaveRan \/ MigrationRan) /\ last.status # "key_error" /\ Len(last.queued) > 0) =>
        LET succeeded == Max(last.success_count, 0)
        IN /\ succeeded + last.failed = Len(last.queued)
           /\ \A i \in 1..Len(last.commits) :
                 ~last.commits[i].ok => last.failed >= Len(last.commits[i].ops)

\* C6: for the snapshot on screen, of size N, and every rowsPerPage >= 1:
\* the page count is max(1, ceil(N / rowsPerPage)), every page holds at most
\* rowsPerPage rows, the pages are disjoint, and in page order they make up
\* the snapshot.
C6_Pagination ==
    ui # "none" =>
        LET df == shown.df
            N == Len(df)
        IN \A rpp \in 1..(N + 1) :
             LET pages == IF N = 0 THEN 1 ELSE ((N - 1) \div rpp) + 1
                 slice(p) == PageOf(df, p, rpp)
             IN /\ TotalPages(N, rpp) = pages
                /\ \A p \in 1..pages :
                      /\ Len(slice(p)) <= rpp
                      /\ Len(slice(p)) = IF p < pages THEN rpp ELSE N - (pages - 1) * rpp
                      /\ \A i \in 1..Len(slice(p)) : slice(p)[i] = df[(p - 1) * rpp + i]
                      /\ StartIdx(p, rpp) = (p - 1) * rpp
                      /\ p < pages => EndIdx(p, rpp, N) = StartIdx(p + 1, rpp)
                      /\ p = pages => EndIdx(p, rpp, N) = N

C6_Witness ==
    /\ ui = "editor"
    /\ Len(shown.df) = 25
    /\ shown.page_number = 3
    /\ Len(shown.page) = 5

\* C7: a save queues a write for every delta entry whose row index lies in
\* the page and none for the others; every other entry gives a warning and
\* the save goes on to its commit.
C7_OutOfRangeSkipped ==
    SaveRan =>
        LET inside == SelectSeq(last.delta,
                        LAMBDA e : 0 <= RowOf(e.key) /\ RowOf(e.key) < Len(last.page))
        IN /\ Len(last.queued) = Len(inside)
           /\ \A i \in 1..Len(inside) :
                 /\ last.queued[i].id = last.page[RowOf(inside[i].key) + 1].id
                 /\ DOMAIN last.queued[i].data = DOMAIN inside[i].changes
           /\ Len(last.warnings) = Len(last.delta) - Len(inside)
           /\ Len(inside) > 0 => Len(last.commits) = 1
           /\ last.cleared

C7_Witness ==
    /\ SaveRan
    /\ Len(last.delta) = 2
    /\ Len(last.warnings) = 1
    /\ last.warnings[1].kind = "outside_page"
    /\ Len(last.queued) = 1
    /\ Len(last.commits) = 1

\* the inputs that stand for an attendance
Affirmative ==
    { BoolV(TRUE), IntV(1), StrV(<<"1">>), StrV(YES), StrV(<<" ", "y", "e", "s", " ">>),
      StrV(<<"T", "R", "U", "E">>), StrV(<<"t", "r", "u", "e">>), StrV(ARABIC_YES),
      StrV(<<" ", "Y", "E", "S">>) }

RawInputs ==
    Affirmative \union Range(TextRaws)
      \union { BoolV(FALSE), IntV(0), IntV(2), IntV(11), FloatV(0), FloatV(1), NaN, None,
                StrV(<<>>), StrV(<<"y">>), StrV(<<"n", "o", "n", "e">>),
                StrV(<<"y", "e", "s", "1">>) }

CanonOf(v) == IF v \in Affirmative THEN StrV(YES) ELSE StrV(NO)

\* the records the migration loop iterates over
MigrationData == to_dict_records(DropUnnamed(clean_csv(csv)))

\* C8: an attendance value written by migration or save is "Yes" for the
\* affirmative inputs and "No" for all others, and both paths agree.
C8_Canonical ==
    /\ \A v \in RawInputs : CanonMigrate(v) = CanonOf(v) /\ CanonSave(v) = CanonOf(v)
    /\ SaveRan =>
          LET inside == SelectSeq(last.delta,
                          LAMBDA e : 0 <= RowOf(e.key) /\ RowOf(e.key) < Len(last.page))
          IN \A i \in 1..Len(last.queued) :
                ATTENDED_COLUMN \in DOMAIN last.queued[i].data =>
                   last.queued[i].data[ATTENDED_COLUMN]
                      = CanonOf(inside[i].changes[ATTENDED_COLUMN])
    /\ MigrationRan =>
          \A i \in 1..Len(last.queued) :
             ATTENDED_COLUMN \in DOMAIN last.queued[i].data =>
                last.queued[i].data[ATTENDED_COLUMN]
                   = CanonOf(MigrationData[i][ATTENDED_COLUMN])

C8_Witness ==
    /\ SaveRan
    /\ last.status = "committed"
    /\ \E i \in 1..Len(last.queued) :
          /\ ATTENDED_COLUMN \in DOMAIN last.queued[i].data
          /\ last.queued[i].data[ATTENDED_COLUMN] = StrV(YES)
          /\ \E j \in 1..Len(last.delta) :
                /\ ATTENDED_COLUMN \in DOMAIN last.delta[j].changes
                /\ last.delta[j].changes[ATTENDED_COLUMN] = BoolV(TRUE)

\* C9: when a migration or a save ends, every document that was in the
\* store before it is still there, and each of its fields that no committed
\* write names has the value it had.
C9_MergeKeepsFields ==
    last.op \in {"migrate", "save"} =>
        \A d \in DOMAIN last.pre_store :
            /\ d \in DOMAIN last.post_store
            /\ \A f \in DOMAIN last.pre_store[d] :
                  \/ /\ f \in DOMAIN last.post_store[d]
                     /\ last.post_store[d][f] = last.pre_store[d][f]
                  \/ \E i \in 1..Len(last.commits) :
                        /\ last.commits[i].ok
                        /\ \E j \in 1..Len(last.commits[i].ops) :
                              /\ last.commits[i].ops[j].id = d
                              /\ f \in DOMAIN last.commits[i].ops[j].data

\* the store after one complete migration of the file into an empty store
MigratedOnce == MigrateRun(csv, EmptyStore, {}).store

SubStore(a, b) == \A d \in DOMAIN a : d \in DOMAIN b /\ a[d] = b[d]

HasId(record) == ID_COLUMN \in DOMAIN CleanedRecord(record)

AllAccepted == \A i \in 1..Len(last.commits) : last.commits[i].ok

\* C11: a migration in which the store accepts every commit is not abandoned
\* for a row without a usable ID: every other row of the source is queued
\* and is in the store afterwards, and only the rows without ID are left out.
C11_BadRowSkipped ==
    (MigrationRan /\ AllAccepted) =>
        /\ last.status = "complete"
        /\ \A i \in 1..Len(MigrationData) :
              HasId(MigrationData[i]) =>
                 LET id == PyStr(CleanedRecord(MigrationData[i])[ID_COLUMN])
                 IN /\ \E j \in 1..Len(last.queued) : last.queued[j].id = id
                    /\ id \in DOMAIN last.post_store
        /\ last.total - Len(last.queued)
              = Cardinality({ i \in 1..Len(MigrationData) : ~HasId(MigrationData[i]) })

\* a row of the file in which every cell is empty
FullyEmpty(row) == \A i \in 1..Len(row) : row[i].t = "nan"

\* the rows of the file that are not fully empty, in the order of the file
NonEmptyRows == SelectSeq(csv.rows, LAMBDA r : ~FullyEmpty(r))

\* the position of the ID column of the file
IdAt == CHOOSE i \in 1..Len(csv.columns) : PyStrip(csv.columns[i]) = ID_COLUMN

\* every row that is not fully empty has an ID of its own
WellFormedSource ==
    /\ csv.ok
    /\ \E i \in 1..Len(csv.columns) : PyStrip(csv.columns[i]) = ID_COLUMN
    /\ \A j \in 1..Len(NonEmptyRows) :
          /\ NonEmptyRows[j][IdAt].t \in {"int", "float"}
          /\ \A k \in 1..Len(NonEmptyRows) :
                NonEmptyRows[k][IdAt] = NonEmptyRows[j][IdAt] => k = j

\* the field names a row of the file is written with
FieldsOf(row) ==
    { PyStrip(csv.columns[i]) : i \in { k \in 1..Len(row) : row[k].t # "nan" } }
      \ {UNNAMED_COLUMN}

\* C12: for a file of n rows of which e are fully empty and the others well
\* formed, a migration whose commits are all accepted reports n - e uploaded
\* records out of n - e, queues n - e writes, and leaves one document per
\* row that is not fully empty, with the fields that row has.
C12_EmptyRowsNotCounted ==
    (last.op = "migrate" /\ AllAccepted /\ WellFormedSource) =>
        LET imported == Len(NonEmptyRows)
        IN /\ last.status = IF imported = 0 THEN "no_records" ELSE "complete"
           /\ last.total = imported
           /\ Len(last.queued) = imported
           /\ imported > 0 => last.success_count = imported
           /\ \A j \in 1..imported :
                 LET id == PyStr(NonEmptyRows[j][IdAt])
                 IN /\ id \in DOMAIN last.post_store
                    /\ DOMAIN last.post_store[id] = FieldsOf(NonEmptyRows[j])
                    /\ last.post_store[id][ID_COLUMN] = NonEmptyRows[j][IdAt]
           /\ last.pre_store = EmptyStore =>
                 Cardinality(DOMAIN last.post_store) = imported

C12_Witness ==
    /\ last.op = "migrate"
    /\ last.status = "complete"
    /\ WellFormedSource
    /\ Len(csv.rows) = 5
    /\ Len(NonEmptyRows) = 4
    /\ last.success_count = 4
    /\ Cardinality(DOMAIN last.post_store) = 4

\* C13: a migration runs only on an empty collection: the store the
\* migration handler starts from, which is the store of the script run that
\* offered the button, holds no document.
C13_MigrationOnlyOnEmptyStore ==
    last.op = "migrate" => last.pre_store = EmptyStore

\* a string without white space at its ends
Trimmed(s) == s = <<>> \/ (~IsSpace(s[1]) /\ ~IsSpace(s[Len(s)]))

\* t is s without some white space at its two ends
TrimOf(t, s) ==
    \E lo \in 1..(Len(s) + 1) :
        /\ t = SubSeq(s, lo, lo + Len(t) - 1)
        /\ lo + Len(t) - 1 <= Len(s)
        /\ \A i \in 1..Len(s) : (i < lo \/ i > lo + Len(t) - 1) => IsSpace(s[i])

\* C14: cleaning the file twice gives what cleaning it once gives; the rows
\* that survive are the rows that are not fully empty, in the order of the
\* file; every column name is the name of the file trimmed; and a migration
\* iterates over exactly the surviving rows.
C14_CleanIdempotent ==
    LET c == clean_csv(csv)
    IN /\ clean_csv(c) = c
       /\ c.rows = NonEmptyRows
       /\ Len(c.columns) = Len(csv.columns)
       /\ \A i \in 1..Len(c.columns) :
             Trimmed(c.columns[i]) /\ TrimOf(c.columns[i], csv.columns[i])
       /\ last.op = "migrate" => last.total = Len(NonEmptyRows)

C14_Witness ==
    /\ last.op = "migrate"
    /\ last.status = "complete"
    /\ Len(csv.rows) = 3
    /\ ~FullyEmpty(csv.rows[1])
    /\ FullyEmpty(csv.rows[2])
    /\ ~FullyEmpty(csv.rows[3])
    /\ ~Trimmed(csv.columns[1])
    /\ clean_csv(csv).rows = <<csv.rows[1], csv.rows[3]>>
    /\ last.total = 2

(***************************************************************************)
(* The backup of lines 316-323 and what pandas.read_csv makes of it.  The  *)
(* file is modelled cell by cell: to_csv writes every cell as text and     *)
(* read_csv infers the type of a column from the texts of its cells.       *)
(***************************************************************************)
DOC_ID_COLUMN == <<"_", "d", "o", "c", "_", "i", "d">>

\* the elements of a set in some order (the order of columns does not
\* matter to to_dict("records"))
RECURSIVE SeqOf(_)
SeqOf(S) ==
    IF S = {} THEN <<>>
    ELSE LET x == CHOOSE y \in S : TRUE IN <<x>> \o SeqOf(S \ {x})

\* lines 126-127 and 317: the frame of load_data with _doc_id as a column;
\* a field that a document does not have is NaN
ResetIndex(df) ==
    LET fields == SeqOf(UNION { DOMAIN df[i].rec : i \in 1..Len(df) })
    IN [ columns |-> <<DOC_ID_COLUMN>> \o fields,
         rows |-> [ i \in 1..Len(df) |->
                      <<StrV(df[i].id)>> \o
                      [ j \in 1..Len(fields) |->
                          IF fields[j] \in DOMAIN df[i].rec
                          THEN df[i].rec[fields[j]] ELSE NaN ] ] ]

\* line 317, to_csv: the text of one cell.  A column of numbers is a float
\* column as soon as one of its cells is a float or is missing.
CsvCell(v, column) ==
    LET numbers == \A i \in 1..Len(column) : column[i].t \in {"int", "float", "nan"}
        floats == \E i \in 1..Len(column) : column[i].t \in {"float", "nan"}
    IN IF ~NotNa(v) THEN <<>>
       ELSE IF v.t = "int" /\ numbers /\ floats THEN PyStr(FloatV(v.n))
       ELSE PyStr(v)

to_csv(frame) ==
    [ columns |-> frame.columns,
      rows |-> [ i \in 1..Len(frame.rows) |->
                   [ j \in 1..Len(frame.columns) |->
                       CsvCell(frame.rows[i][j],
                               [k \in 1..Len(frame.rows) |-> frame.rows[k][j]]) ] ] ]

IsIntText(s) ==
    LET ds == IF s # <<>> /\ Head(s) = "-" THEN Tail(s) ELSE s
    IN ds # <<>> /\ \A i \in 1..Len(ds) : ds[i] \in Range(Digits)

IsFloatText(s) ==
    /\ Len(s) >= 3
    /\ SubSeq(s, Len(s) - 1, Len(s)) = <<".", "0">>
    /\ IsIntText(SubSeq(s, 1, Len(s) - 2))

IntOfText(s) == IF Head(s) = "-" THEN 0 - DigitsVal(Tail(s)) ELSE DigitsVal(s)

NaTexts == { <<>>, <<"n", "a", "n">>, <<"N", "a", "N">>, <<"N", "A">>,
             <<"N", "o", "n", "e">>, <<"n", "u", "l", "l">> }

\* line 48, read_csv: the value of one cell, by the type inferred for its column
ReadCell(s, column) ==
    LET ints == \A i \in 1..Len(column) : IsIntText(column[i])
        numbers == \A i \in 1..Len(column) :
                      column[i] \in NaTexts \/ IsIntText(column[i]) \/ IsFloatText(column[i])
        bools == \A i \in 1..Len(column) :
                    column[i] \in { <<"T", "r", "u", "e">>, <<"F", "a", "l", "s", "e">> }
    IN IF s \in NaTexts /\ ~ints /\ ~bools THEN NaN
       ELSE IF ints THEN IntV(IntOfText(s))
       ELSE IF numbers
            THEN (IF IsIntText(s) THEN FloatV(IntOfText(s))
                  ELSE FloatV(IntOfText(SubSeq(s, 1, Len(s) - 2))))
       ELSE IF bools THEN BoolV(s = <<"T", "r", "u", "e">>)
       ELSE StrV(s)

read_csv(text) ==
    [ ok |-> TRUE,
      columns |-> text.columns,
      rows |-> [ i \in 1..Len(text.rows) |->
                   [ j \in 1..Len(text.columns) |->
                       ReadCell(text.rows[i][j],
                                [k \in 1..Len(text.rows) |-> text.rows[k][j]]) ] ] ]

\* lines 316-323: the backup file, as read_csv reads it back
backup_csv(df) == read_csv(to_csv(ResetIndex(df)))

\* the documents of a snapshot, by document id
SnapshotDocs(df) ==
    [ d \in { df[i].id : i \in 1..Len(df) } |->
        df[CHOOSE i \in 1..Len(df) : df[i].id = d].rec ]

\* C15: the backup of the snapshot on screen, migrated into an empty
\* collection, gives the documents of the snapshot: the same document ids
\* with the same fields and values.
C15_RoundTrip ==
    ui = "editor" =>
        MigrateRun(backup_csv(shown.df), EmptyStore, {}).store = SnapshotDocs(shown.df)

(***************************************************************************)
(* The page number, the cache and the pending edits across script runs.    *)
(***************************************************************************)
\* C16: the page number of the page on screen lies in 1..pageCount of the
\* snapshot on screen, and a save recomputes its page with the page number
\* the page on screen was drawn with.
C16_PageNumberClamped ==
    /\ ui = "editor" =>
          /\ 1 <= shown.page_number
          /\ shown.page_number <= TotalPages(Len(shown.df), ROWS_PER_PAGE)
    /\ SaveRan => last.page_number = last.rendered.page_number

\* C17: after a migration or a save in which the store accepted a commit,
\* the cache of load_data was cleared, so that a snapshot still cached is
\* one fetched from the store as the handler left it.
C17_CacheInvalidated ==
    (last.op \in {"migrate", "save"} /\ \E i \in 1..Len(last.commits) : last.commits[i].ok) =>
        /\ last.cleared
        /\ cache.valid => cache.df = FetchFrame(last.post_store)

\* C18: the pending edits are empty after a step in which a save committed
\* them and after a step that shows another page of the grid.
C18_DeltaConsumedOnce ==
    [][ ( \/ (last'.op = "save" /\ last'.status = "committed")
          \/ (ui = "editor" /\ ui' = "editor"
                /\ shown'.page_number # shown.page_number) )
        => editor' = NoEdits ]_vars

\* C19: a save or a migration that queued no write issued no commit and
\* left the store as it found it.
C19_NothingQueuedNoCommit ==
    (last.op \in {"save", "migrate"} /\ last.queued = <<>>) =>
        /\ last.commits = <<>>
        /\ last.post_store = last.pre_store

C19_Witness ==
    /\ last.op = "save"
    /\ last.status = "nothing_queued"
    /\ Len(last.delta) > 0
    /\ Len(last.warnings) = Len(last.delta)
    /\ last.warnings[1].kind = "outside_page"
    /\ last.queued = <<>>
    /\ last.commits = <<>>
    /\ last.pre_store # EmptyStore
    /\ last.post_store = last.pre_store

\* C20: a save issues at most one commit; its batch holds at most as many
\* writes as the page it recomputed has rows, which is at most ROWS_PER_PAGE
\* and below the limit of 500; no two writes are for one document; and the
\* store after it holds all of the queued writes or is the store before it.
C20_SaveBatchBounded ==
    last.op = "save" =>
        /\ Len(last.commits) <= 1
        /\ Len(last.queued) <= Len(last.page)
        /\ Len(last.page) <= ROWS_PER_PAGE
        /\ Len(last.queued) <= BATCH_LIMIT
        /\ \A i, j \in 1..Len(last.queued) :
              last.queued[i].id = last.queued[j].id => i = j
        /\ \A i \in 1..Len(last.commits) : last.commits[i].ops = last.queued
        /\ \/ last.post_store = last.pre_store
           \/ /\ last.status = "committed"
              /\ last.post_store = CommitBatch(last.pre_store, last.queued)

C20_Witness ==
    /\ last.op = "save"
    /\ last.status = "committed"
    /\ Len(last.delta) = 2
    /\ last.delta[1].key.t = "str"
    /\ Len(last.commits) = 1
    /\ Len(last.commits[1].ops) = 2
    /\ last.queued[1].id # last.queued[2].id
    /\ Len(last.page) = ROWS_PER_PAGE
    /\ last.post_store # last.pre_store

====
